---------------------------- MODULE Spec2Model ----------------------------
(***************************************************************************)
(* RFP Document Analyzer (rfp_analyzer.py): the pattern matcher            *)
(* (find_matches), the deadline extractor (extract_deadlines), the         *)
(* analysis (analyze_document), the report builder (create_excel_report)   *)
(* and the Analyze handler of main().                                      *)
(*                                                                         *)
(* A text is a sequence of one-character strings.  A regular expression    *)
(* is kept in parsed form: a sequence of alternatives, each a sequence of  *)
(* items; an item is a character class with a repeat range {lo,hi}         *)
(* (hi = -1: unbounded), a non-capturing group of alternatives, or the     *)
(* word boundary \b.  Matching is Python's: leftmost, alternatives in      *)
(* order, greedy repeats with backtracking, non-overlapping findall.  All  *)
(* patterns are matched with re.IGNORECASE, so literals are kept in lower  *)
(* case and compared with the lower-cased character of the text.           *)
(***************************************************************************)
EXTENDS Integers, Sequences, FiniteSets, TLC

----------------------------------------------------------------------------
(* Characters *)

UpperCase == <<"A","B","C","D","E","F","G","H","I","J","K","L","M",
               "N","O","P","Q","R","S","T","U","V","W","X","Y","Z">>
LowerCase == <<"a","b","c","d","e","f","g","h","i","j","k","l","m",
               "n","o","p","q","r","s","t","u","v","w","x","y","z">>
UpperSet == {UpperCase[k] : k \in 1..26}
LowerSet == {LowerCase[k] : k \in 1..26}
Digits == {"0","1","2","3","4","5","6","7","8","9"}
\* str.strip(), str.split() and the class \s
Whitespace == {" ", "\t", "\n", "\r", "\f"}
\* the class \w, which decides \b
WordChars == UpperSet \cup LowerSet \cup Digits \cup {"_"}

\* str.lower() of one character (and the folding of re.IGNORECASE)
LowerChar(c) ==
  IF c \in UpperSet THEN LowerCase[CHOOSE k \in 1..26 : UpperCase[k] = c] ELSE c

\* str.lower()
lower(s) == SubSeq([k \in 1..Len(s) |-> LowerChar(s[k])], 1, Len(s))

\* str.upper() of one character
UpperChar(c) ==
  IF c \in LowerSet THEN UpperCase[CHOOSE k \in 1..26 : LowerCase[k] = c] ELSE c

----------------------------------------------------------------------------
(* Parsed regular expressions *)

Ch(c) == [t |-> "set", cs |-> {LowerChar(c)}, lo |-> 1, hi |-> 1]
OneOf(S) == [t |-> "set", cs |-> {LowerChar(c) : c \in S}, lo |-> 1, hi |-> 1]
Space == [t |-> "space", cs |-> {}, lo |-> 1, hi |-> 1]
Digit == [t |-> "digit", cs |-> {}, lo |-> 1, hi |-> 1]
Dot == [t |-> "dot", cs |-> {}, lo |-> 1, hi |-> 1]
WordBoundary == [t |-> "wb"]
Alt(alts) == [t |-> "alt", alts |-> alts]
Q(item, lo, hi) == [item EXCEPT !.lo = lo, !.hi = hi]
\* a literal string: one item per character
Str(s) == SubSeq([k \in 1..Len(s) |-> Ch(s[k])], 1, Len(s))

\* whether the one-character item accepts character c of the lower-cased text
Accepts(item, c) ==
  CASE item.t = "set" -> c \in item.cs
    [] item.t = "space" -> c \in Whitespace
    [] item.t = "digit" -> c \in Digits
    [] item.t = "dot" -> c # "\n"

\* \b at position i (between text[i-1] and text[i])
AtBoundary(text, i) ==
  LET before == i > 1 /\ text[i - 1] \in WordChars
      after == i <= Len(text) /\ text[i] \in WordChars
  IN before # after

RECURSIVE FirstRejected(_, _, _, _)
\* the first position in a..b whose character the item rejects, b + 1 when
\* there is none (the range is halved: the scan is left to right)
FirstRejected(item, text, a, b) ==
  IF a > b THEN a
  ELSE IF a = b THEN (IF Accepts(item, text[a]) THEN a + 1 ELSE a)
  ELSE LET mid == (a + b) \div 2
           left == FirstRejected(item, text, a, mid)
       IN IF left <= mid THEN left ELSE FirstRejected(item, text, mid + 1, b)

\* the number of characters from position i on that a greedy repeat of the
\* item takes: at most item.hi, and only characters it accepts
Run(item, text, i) ==
  LET last == IF item.hi = -1 \/ i + item.hi - 1 > Len(text)
              THEN Len(text) ELSE i + item.hi - 1
  IN FirstRejected(item, text, i, last) - i

\* stands for "any character" in a set of first characters
AnyChar == "any"

RECURSIVE FirstChars(_)
\* The characters a match of the item sequence can start with: the search
\* tries a position only if its character is one of them.  AnyChar is in the
\* set when the sequence can start with any character, or match nothing.
FirstChars(items) ==
  IF items = <<>> THEN {AnyChar}
  ELSE LET item == Head(items)
           rest == Tail(items)
       IN CASE item.t = "wb" -> FirstChars(rest)
            [] item.t = "alt" ->
                 UNION {FirstChars(item.alts[k] \o rest) : k \in 1..Len(item.alts)}
            [] OTHER ->
                 (CASE item.t = "set" -> item.cs
                    [] item.t = "space" -> Whitespace
                    [] item.t = "digit" -> Digits
                    [] item.t = "dot" -> {AnyChar})
                 \cup (IF item.lo = 0 THEN FirstChars(rest) ELSE {})

RECURSIVE MatchAt(_, _, _)
RECURSIVE TryCounts(_, _, _, _, _, _)
RECURSIVE TryAlts(_, _, _, _, _)

\* the position after the first match (in backtracking order) of the item
\* sequence at position i, or -1
MatchAt(items, text, i) ==
  IF items = <<>> THEN i
  ELSE LET item == Head(items)
           rest == Tail(items)
       IN CASE item.t = "alt" -> TryAlts(item.alts, 1, rest, text, i)
            [] item.t = "wb" ->
                 IF AtBoundary(text, i) THEN MatchAt(rest, text, i) ELSE -1
            [] OTHER ->
                 LET n == Run(item, text, i)
                 IN IF n < item.lo THEN -1
                    ELSE TryCounts(item.lo, n, rest, FirstChars(rest), text, i)

\* greedy with backtracking: the repeat counts hi, hi - 1, ..., lo in this
\* order, the first after which the rest matches (the range is halved, the
\* upper half first; `first` is FirstChars(rest))
TryCounts(lo, hi, rest, first, text, i) ==
  IF lo = hi
  THEN IF AnyChar \in first \/ (i + lo <= Len(text) /\ text[i + lo] \in first)
       THEN MatchAt(rest, text, i + lo)
       ELSE -1
  ELSE LET mid == (lo + hi) \div 2
           e == TryCounts(mid + 1, hi, rest, first, text, i)
       IN IF e # -1 THEN e ELSE TryCounts(lo, mid, rest, first, text, i)

\* alternatives in order
TryAlts(alts, k, rest, text, i) ==
  IF k > Len(alts) THEN -1
  ELSE LET e == MatchAt(alts[k] \o rest, text, i)
       IN IF e # -1 THEN e ELSE TryAlts(alts, k + 1, rest, text, i)

RECURSIVE SearchIn(_, _, _, _, _)
\* <<start, end>> of the match with the least start in a..b, <<0, 0>> when
\* there is none (the range is halved: the scan is left to right)
SearchIn(pattern, first, text, a, b) ==
  IF a > b THEN <<0, 0>>
  ELSE IF a = b
       THEN IF AnyChar \in first \/ (a <= Len(text) /\ text[a] \in first)
            THEN LET e == TryAlts(pattern, 1, <<>>, text, a)
                 IN IF e # -1 THEN <<a, e>> ELSE <<0, 0>>
            ELSE <<0, 0>>
  ELSE LET mid == (a + b) \div 2
           left == SearchIn(pattern, first, text, a, mid)
       IN IF left[1] # 0 THEN left
          ELSE SearchIn(pattern, first, text, mid + 1, b)

RECURSIVE FindAllFrom(_, _, _, _, _)
\* the matches from position s on: found in the lower-cased text, taken from
\* the text itself
FindAllFrom(pattern, first, text, lowered, s) ==
  LET m == SearchIn(pattern, first, lowered, s, Len(text) + 1)
  IN IF m[1] = 0 THEN <<>>
     ELSE <<SubSeq(text, m[1], m[2] - 1)>>
          \o FindAllFrom(pattern, first, text, lowered,
                         IF m[2] > m[1] THEN m[2] ELSE m[2] + 1)

\* re.findall(pattern, text, re.IGNORECASE) for a pattern without capturing
\* groups: the matched substrings, left to right, non-overlapping
findall(pattern, text) ==
  FindAllFrom(pattern, FirstChars(<<Alt(pattern)>>), text, lower(text), 1)

\* the special characters re.escape puts a backslash before
EscapedChars == {"(", ")", "[", "]", "{", "}", "?", "*", "+", "-", "|", "^",
                 "$", "\\", ".", "&", "~", "#", " ", "\t", "\n", "\r", "\f"}

\* the term used as the pattern text, unescaped
re_escape_identity(s) == s

RECURSIVE re_escape(_)
\* re.escape: the pattern text that matches s literally
re_escape(s) ==
  IF s = <<>> THEN <<>>
  ELSE (IF Head(s) \in EscapedChars THEN <<"\\", Head(s)>> ELSE <<Head(s)>>)
       \o re_escape(Tail(s))

RECURSIVE Compile(_)
\* re.compile of a pattern text made of plain characters, backslash escapes
\* of non-alphanumeric characters, and the dot
Compile(p) ==
  IF p = <<>> THEN <<>>
  ELSE IF Head(p) = "\\" /\ Len(p) >= 2
       THEN <<Ch(p[2])>> \o Compile(Tail(Tail(p)))
  ELSE IF Head(p) = "." THEN <<Dot>> \o Compile(Tail(p))
  ELSE <<Ch(Head(p))>> \o Compile(Tail(p))

RECURSIVE LeadingSpace(_, _)
\* the number of whitespace characters of s from position k on, up to the
\* first other character
LeadingSpace(s, k) ==
  IF k <= Len(s) /\ s[k] \in Whitespace THEN 1 + LeadingSpace(s, k + 1) ELSE 0

RECURSIVE TrailingSpace(_, _)
TrailingSpace(s, k) ==
  IF k >= 1 /\ s[k] \in Whitespace THEN 1 + TrailingSpace(s, k - 1) ELSE 0

\* str.strip()
strip(s) ==
  LET a == LeadingSpace(s, 1)
  IN IF a = Len(s) THEN <<>>
     ELSE SubSeq(s, a + 1, Len(s) - TrailingSpace(s, Len(s)))

----------------------------------------------------------------------------
(* Pattern catalogues *)

RISK_PATTERNS_high ==
  <<
    \* unlimited\s+liability|uncapped\s+liability
    [key |-> <<"u", "n", "l", "i", "m", "i", "t", "e", "d", "_", "l", "i", "a", "b", "i", "l", "i", "t", "y">>, pattern |->
        << Str(<<"u", "n", "l", "i", "m", "i", "t", "e", "d">>) \o <<Q(Space, 1, -1)>> \o Str(<<"l", "i", "a", "b", "i", "l", "i", "t", "y">>),
           Str(<<"u", "n", "c", "a", "p", "p", "e", "d">>) \o <<Q(Space, 1, -1)>> \o Str(<<"l", "i", "a", "b", "i", "l", "i", "t", "y">>) >>],
    \* indemnif|hold\s+harmless
    [key |-> <<"i", "n", "d", "e", "m", "n", "i", "f", "i", "c", "a", "t", "i", "o", "n">>, pattern |->
        << Str(<<"i", "n", "d", "e", "m", "n", "i", "f">>),
           Str(<<"h", "o", "l", "d">>) \o <<Q(Space, 1, -1)>> \o Str(<<"h", "a", "r", "m", "l", "e", "s", "s">>) >>],
    \* work\s+for\s+hire|assigns?\s+all\s+rights?|transfer\s+of\s+ownership
    [key |-> <<"i", "p", "_", "t", "r", "a", "n", "s", "f", "e", "r">>, pattern |->
        << Str(<<"w", "o", "r", "k">>) \o <<Q(Space, 1, -1)>> \o Str(<<"f", "o", "r">>) \o <<Q(Space, 1, -1)>> \o Str(<<"h", "i", "r", "e">>),
           Str(<<"a", "s", "s", "i", "g", "n">>) \o <<Q(Ch("s"), 0, 1)>> \o <<Q(Space, 1, -1)>> \o Str(<<"a", "l", "l">>) \o <<Q(Space, 1, -1)>> \o Str(<<"r", "i", "g", "h", "t">>) \o <<Q(Ch("s"), 0, 1)>>,
           Str(<<"t", "r", "a", "n", "s", "f", "e", "r">>) \o <<Q(Space, 1, -1)>> \o Str(<<"o", "f">>) \o <<Q(Space, 1, -1)>> \o Str(<<"o", "w", "n", "e", "r", "s", "h", "i", "p">>) >>],
    \* liquidated\s+damages|penalty\s+clause
    [key |-> <<"l", "i", "q", "u", "i", "d", "a", "t", "e", "d", "_", "d", "a", "m", "a", "g", "e", "s">>, pattern |->
        << Str(<<"l", "i", "q", "u", "i", "d", "a", "t", "e", "d">>) \o <<Q(Space, 1, -1)>> \o Str(<<"d", "a", "m", "a", "g", "e", "s">>),
           Str(<<"p", "e", "n", "a", "l", "t", "y">>) \o <<Q(Space, 1, -1)>> \o Str(<<"c", "l", "a", "u", "s", "e">>) >>],
    \* termination\s+for\s+convenience|terminate\s+without\s+cause
    [key |-> <<"t", "e", "r", "m", "i", "n", "a", "t", "i", "o", "n", "_", "f", "o", "r", "_", "c", "o", "n", "v", "e", "n", "i", "e", "n", "c", "e">>, pattern |->
        << Str(<<"t", "e", "r", "m", "i", "n", "a", "t", "i", "o", "n">>) \o <<Q(Space, 1, -1)>> \o Str(<<"f", "o", "r">>) \o <<Q(Space, 1, -1)>> \o Str(<<"c", "o", "n", "v", "e", "n", "i", "e", "n", "c", "e">>),
           Str(<<"t", "e", "r", "m", "i", "n", "a", "t", "e">>) \o <<Q(Space, 1, -1)>> \o Str(<<"w", "i", "t", "h", "o", "u", "t">>) \o <<Q(Space, 1, -1)>> \o Str(<<"c", "a", "u", "s", "e">>) >>],
    \* net\s+\d{2,3}|payment\s+terms?\s+\d{2,}|paid\s+after\s+\d{2,}
    [key |-> <<"p", "a", "y", "m", "e", "n", "t", "_", "t", "e", "r", "m", "s">>, pattern |->
        << Str(<<"n", "e", "t">>) \o <<Q(Space, 1, -1)>> \o <<Q(Digit, 2, 3)>>,
           Str(<<"p", "a", "y", "m", "e", "n", "t">>) \o <<Q(Space, 1, -1)>> \o Str(<<"t", "e", "r", "m">>) \o <<Q(Ch("s"), 0, 1)>> \o <<Q(Space, 1, -1)>> \o <<Q(Digit, 2, -1)>>,
           Str(<<"p", "a", "i", "d">>) \o <<Q(Space, 1, -1)>> \o Str(<<"a", "f", "t", "e", "r">>) \o <<Q(Space, 1, -1)>> \o <<Q(Digit, 2, -1)>> >>]
  >>

RISK_PATTERNS_medium ==
  <<
    \* warrant[yi]|guarantee
    [key |-> <<"w", "a", "r", "r", "a", "n", "t", "y">>, pattern |->
        << Str(<<"w", "a", "r", "r", "a", "n", "t">>) \o <<OneOf({"y", "i"})>>,
           Str(<<"g", "u", "a", "r", "a", "n", "t", "e", "e">>) >>],
    \* insurance\s+requirements?|liability\s+insurance|errors?\s+and\s+omissions?
    [key |-> <<"i", "n", "s", "u", "r", "a", "n", "c", "e">>, pattern |->
        << Str(<<"i", "n", "s", "u", "r", "a", "n", "c", "e">>) \o <<Q(Space, 1, -1)>> \o Str(<<"r", "e", "q", "u", "i", "r", "e", "m", "e", "n", "t">>) \o <<Q(Ch("s"), 0, 1)>>,
           Str(<<"l", "i", "a", "b", "i", "l", "i", "t", "y">>) \o <<Q(Space, 1, -1)>> \o Str(<<"i", "n", "s", "u", "r", "a", "n", "c", "e">>),
           Str(<<"e", "r", "r", "o", "r">>) \o <<Q(Ch("s"), 0, 1)>> \o <<Q(Space, 1, -1)>> \o Str(<<"a", "n", "d">>) \o <<Q(Space, 1, -1)>> \o Str(<<"o", "m", "i", "s", "s", "i", "o", "n">>) \o <<Q(Ch("s"), 0, 1)>> >>],
    \* audit\s+rights?|right\s+to\s+audit|inspection\s+rights?
    [key |-> <<"a", "u", "d", "i", "t", "_", "r", "i", "g", "h", "t", "s">>, pattern |->
        << Str(<<"a", "u", "d", "i", "t">>) \o <<Q(Space, 1, -1)>> \o Str(<<"r", "i", "g", "h", "t">>) \o <<Q(Ch("s"), 0, 1)>>,
           Str(<<"r", "i", "g", "h", "t">>) \o <<Q(Space, 1, -1)>> \o Str(<<"t", "o">>) \o <<Q(Space, 1, -1)>> \o Str(<<"a", "u", "d", "i", "t">>),
           Str(<<"i", "n", "s", "p", "e", "c", "t", "i", "o", "n">>) \o <<Q(Space, 1, -1)>> \o Str(<<"r", "i", "g", "h", "t">>) \o <<Q(Ch("s"), 0, 1)>> >>],
    \* confidential|non-?disclosure|proprietary\s+information
    [key |-> <<"c", "o", "n", "f", "i", "d", "e", "n", "t", "i", "a", "l", "i", "t", "y">>, pattern |->
        << Str(<<"c", "o", "n", "f", "i", "d", "e", "n", "t", "i", "a", "l">>),
           Str(<<"n", "o", "n">>) \o <<Q(Ch("-"), 0, 1)>> \o Str(<<"d", "i", "s", "c", "l", "o", "s", "u", "r", "e">>),
           Str(<<"p", "r", "o", "p", "r", "i", "e", "t", "a", "r", "y">>) \o <<Q(Space, 1, -1)>> \o Str(<<"i", "n", "f", "o", "r", "m", "a", "t", "i", "o", "n">>) >>],
    \* arbitration|dispute\s+resolution|governing\s+law
    [key |-> <<"d", "i", "s", "p", "u", "t", "e", "_", "r", "e", "s", "o", "l", "u", "t", "i", "o", "n">>, pattern |->
        << Str(<<"a", "r", "b", "i", "t", "r", "a", "t", "i", "o", "n">>),
           Str(<<"d", "i", "s", "p", "u", "t", "e">>) \o <<Q(Space, 1, -1)>> \o Str(<<"r", "e", "s", "o", "l", "u", "t", "i", "o", "n">>),
           Str(<<"g", "o", "v", "e", "r", "n", "i", "n", "g">>) \o <<Q(Space, 1, -1)>> \o Str(<<"l", "a", "w">>) >>]
  >>

RISK_PATTERNS_low ==
  <<
    \* delivery\s+date|milestone|deliverable
    [key |-> <<"d", "e", "l", "i", "v", "e", "r", "y", "_", "t", "e", "r", "m", "s">>, pattern |->
        << Str(<<"d", "e", "l", "i", "v", "e", "r", "y">>) \o <<Q(Space, 1, -1)>> \o Str(<<"d", "a", "t", "e">>),
           Str(<<"m", "i", "l", "e", "s", "t", "o", "n", "e">>),
           Str(<<"d", "e", "l", "i", "v", "e", "r", "a", "b", "l", "e">>) >>],
    \* acceptance\s+criteria|acceptance\s+testing
    [key |-> <<"a", "c", "c", "e", "p", "t", "a", "n", "c", "e", "_", "c", "r", "i", "t", "e", "r", "i", "a">>, pattern |->
        << Str(<<"a", "c", "c", "e", "p", "t", "a", "n", "c", "e">>) \o <<Q(Space, 1, -1)>> \o Str(<<"c", "r", "i", "t", "e", "r", "i", "a">>),
           Str(<<"a", "c", "c", "e", "p", "t", "a", "n", "c", "e">>) \o <<Q(Space, 1, -1)>> \o Str(<<"t", "e", "s", "t", "i", "n", "g">>) >>],
    \* change\s+order|modification|amendment
    [key |-> <<"c", "h", "a", "n", "g", "e", "_", "o", "r", "d", "e", "r", "s">>, pattern |->
        << Str(<<"c", "h", "a", "n", "g", "e">>) \o <<Q(Space, 1, -1)>> \o Str(<<"o", "r", "d", "e", "r">>),
           Str(<<"m", "o", "d", "i", "f", "i", "c", "a", "t", "i", "o", "n">>),
           Str(<<"a", "m", "e", "n", "d", "m", "e", "n", "t">>) >>]
  >>

FEDERAL_PATTERNS ==
  <<
    \* FAR\s+\d+\.\d+|Federal\s+Acquisition\s+Regulation
    [key |-> <<"f", "a", "r", "_", "c", "l", "a", "u", "s", "e", "s">>, pattern |->
        << Str(<<"f", "a", "r">>) \o <<Q(Space, 1, -1)>> \o <<Q(Digit, 1, -1)>> \o Str(<<".">>) \o <<Q(Digit, 1, -1)>>,
           Str(<<"f", "e", "d", "e", "r", "a", "l">>) \o <<Q(Space, 1, -1)>> \o Str(<<"a", "c", "q", "u", "i", "s", "i", "t", "i", "o", "n">>) \o <<Q(Space, 1, -1)>> \o Str(<<"r", "e", "g", "u", "l", "a", "t", "i", "o", "n">>) >>],
    \* DFARS\s+\d+\.\d+|Defense\s+Federal\s+Acquisition
    [key |-> <<"d", "f", "a", "r", "s", "_", "c", "l", "a", "u", "s", "e", "s">>, pattern |->
        << Str(<<"d", "f", "a", "r", "s">>) \o <<Q(Space, 1, -1)>> \o <<Q(Digit, 1, -1)>> \o Str(<<".">>) \o <<Q(Digit, 1, -1)>>,
           Str(<<"d", "e", "f", "e", "n", "s", "e">>) \o <<Q(Space, 1, -1)>> \o Str(<<"f", "e", "d", "e", "r", "a", "l">>) \o <<Q(Space, 1, -1)>> \o Str(<<"a", "c", "q", "u", "i", "s", "i", "t", "i", "o", "n">>) >>],
    \* small\s+business|8\(a\)|HUBZone|SDVOSB|WOSB
    [key |-> <<"s", "m", "a", "l", "l", "_", "b", "u", "s", "i", "n", "e", "s", "s">>, pattern |->
        << Str(<<"s", "m", "a", "l", "l">>) \o <<Q(Space, 1, -1)>> \o Str(<<"b", "u", "s", "i", "n", "e", "s", "s">>),
           Str(<<"8", "(", "a", ")">>),
           Str(<<"h", "u", "b", "z", "o", "n", "e">>),
           Str(<<"s", "d", "v", "o", "s", "b">>),
           Str(<<"w", "o", "s", "b">>) >>],
    \* security\s+clearance|classified|secret|confidential
    [key |-> <<"s", "e", "c", "u", "r", "i", "t", "y", "_", "c", "l", "e", "a", "r", "a", "n", "c", "e">>, pattern |->
        << Str(<<"s", "e", "c", "u", "r", "i", "t", "y">>) \o <<Q(Space, 1, -1)>> \o Str(<<"c", "l", "e", "a", "r", "a", "n", "c", "e">>),
           Str(<<"c", "l", "a", "s", "s", "i", "f", "i", "e", "d">>),
           Str(<<"s", "e", "c", "r", "e", "t">>),
           Str(<<"c", "o", "n", "f", "i", "d", "e", "n", "t", "i", "a", "l">>) >>],
    \* Buy\s+American|domestic\s+end\s+product|TAA\s+compliant
    [key |-> <<"b", "u", "y", "_", "a", "m", "e", "r", "i", "c", "a", "n">>, pattern |->
        << Str(<<"b", "u", "y">>) \o <<Q(Space, 1, -1)>> \o Str(<<"a", "m", "e", "r", "i", "c", "a", "n">>),
           Str(<<"d", "o", "m", "e", "s", "t", "i", "c">>) \o <<Q(Space, 1, -1)>> \o Str(<<"e", "n", "d">>) \o <<Q(Space, 1, -1)>> \o Str(<<"p", "r", "o", "d", "u", "c", "t">>),
           Str(<<"t", "a", "a">>) \o <<Q(Space, 1, -1)>> \o Str(<<"c", "o", "m", "p", "l", "i", "a", "n", "t">>) >>]
  >>

INSTRUCTION_PATTERNS ==
  <<
    \* due\s+date|deadline|submit\s+by|submission\s+date|closing\s+date|must\s+be\s+received
    [key |-> <<"d", "e", "a", "d", "l", "i", "n", "e">>, pattern |->
        << Str(<<"d", "u", "e">>) \o <<Q(Space, 1, -1)>> \o Str(<<"d", "a", "t", "e">>),
           Str(<<"d", "e", "a", "d", "l", "i", "n", "e">>),
           Str(<<"s", "u", "b", "m", "i", "t">>) \o <<Q(Space, 1, -1)>> \o Str(<<"b", "y">>),
           Str(<<"s", "u", "b", "m", "i", "s", "s", "i", "o", "n">>) \o <<Q(Space, 1, -1)>> \o Str(<<"d", "a", "t", "e">>),
           Str(<<"c", "l", "o", "s", "i", "n", "g">>) \o <<Q(Space, 1, -1)>> \o Str(<<"d", "a", "t", "e">>),
           Str(<<"m", "u", "s", "t">>) \o <<Q(Space, 1, -1)>> \o Str(<<"b", "e">>) \o <<Q(Space, 1, -1)>> \o Str(<<"r", "e", "c", "e", "i", "v", "e", "d">>) >>],
    \* page\s+limit|font\s+size|margin|spacing|format\s+requirement
    [key |-> <<"f", "o", "r", "m", "a", "t">>, pattern |->
        << Str(<<"p", "a", "g", "e">>) \o <<Q(Space, 1, -1)>> \o Str(<<"l", "i", "m", "i", "t">>),
           Str(<<"f", "o", "n", "t">>) \o <<Q(Space, 1, -1)>> \o Str(<<"s", "i", "z", "e">>),
           Str(<<"m", "a", "r", "g", "i", "n">>),
           Str(<<"s", "p", "a", "c", "i", "n", "g">>),
           Str(<<"f", "o", "r", "m", "a", "t">>) \o <<Q(Space, 1, -1)>> \o Str(<<"r", "e", "q", "u", "i", "r", "e", "m", "e", "n", "t">>) >>],
    \* submit\s+to|email\s+to|upload\s+to|deliver\s+to|submission\s+portal
    [key |-> <<"s", "u", "b", "m", "i", "s", "s", "i", "o", "n", "_", "m", "e", "t", "h", "o", "d">>, pattern |->
        << Str(<<"s", "u", "b", "m", "i", "t">>) \o <<Q(Space, 1, -1)>> \o Str(<<"t", "o">>),
           Str(<<"e", "m", "a", "i", "l">>) \o <<Q(Space, 1, -1)>> \o Str(<<"t", "o">>),
           Str(<<"u", "p", "l", "o", "a", "d">>) \o <<Q(Space, 1, -1)>> \o Str(<<"t", "o">>),
           Str(<<"d", "e", "l", "i", "v", "e", "r">>) \o <<Q(Space, 1, -1)>> \o Str(<<"t", "o">>),
           Str(<<"s", "u", "b", "m", "i", "s", "s", "i", "o", "n">>) \o <<Q(Space, 1, -1)>> \o Str(<<"p", "o", "r", "t", "a", "l">>) >>],
    \* required\s+document|must\s+include|shall\s+provide|attachment|exhibit
    [key |-> <<"r", "e", "q", "u", "i", "r", "e", "d", "_", "d", "o", "c", "s">>, pattern |->
        << Str(<<"r", "e", "q", "u", "i", "r", "e", "d">>) \o <<Q(Space, 1, -1)>> \o Str(<<"d", "o", "c", "u", "m", "e", "n", "t">>),
           Str(<<"m", "u", "s", "t">>) \o <<Q(Space, 1, -1)>> \o Str(<<"i", "n", "c", "l", "u", "d", "e">>),
           Str(<<"s", "h", "a", "l", "l">>) \o <<Q(Space, 1, -1)>> \o Str(<<"p", "r", "o", "v", "i", "d", "e">>),
           Str(<<"a", "t", "t", "a", "c", "h", "m", "e", "n", "t">>),
           Str(<<"e", "x", "h", "i", "b", "i", "t">>) >>],
    \* evaluation\s+criteria|scoring|weight|technical\s+approach|past\s+performance
    [key |-> <<"e", "v", "a", "l", "u", "a", "t", "i", "o", "n">>, pattern |->
        << Str(<<"e", "v", "a", "l", "u", "a", "t", "i", "o", "n">>) \o <<Q(Space, 1, -1)>> \o Str(<<"c", "r", "i", "t", "e", "r", "i", "a">>),
           Str(<<"s", "c", "o", "r", "i", "n", "g">>),
           Str(<<"w", "e", "i", "g", "h", "t">>),
           Str(<<"t", "e", "c", "h", "n", "i", "c", "a", "l">>) \o <<Q(Space, 1, -1)>> \o Str(<<"a", "p", "p", "r", "o", "a", "c", "h">>),
           Str(<<"p", "a", "s", "t">>) \o <<Q(Space, 1, -1)>> \o Str(<<"p", "e", "r", "f", "o", "r", "m", "a", "n", "c", "e">>) >>]
  >>

date_patterns ==
  <<
    \* \b\d{1,2}[/-]\d{1,2}[/-]\d{2,4}\b
    << <<WordBoundary>> \o <<Q(Digit, 1, 2)>> \o <<OneOf({"/", "-"})>> \o <<Q(Digit, 1, 2)>> \o <<OneOf({"/", "-"})>> \o <<Q(Digit, 2, 4)>> \o <<WordBoundary>> >>,
    \* \b(?:January|February|March|April|May|June|July|August|September|October|November|December)\s+\d{1,2},?\s+\d{4}\b
    << <<WordBoundary>> \o <<Alt(<<Str(<<"j", "a", "n", "u", "a", "r", "y">>), Str(<<"f", "e", "b", "r", "u", "a", "r", "y">>), Str(<<"m", "a", "r", "c", "h">>), Str(<<"a", "p", "r", "i", "l">>), Str(<<"m", "a", "y">>), Str(<<"j", "u", "n", "e">>), Str(<<"j", "u", "l", "y">>), Str(<<"a", "u", "g", "u", "s", "t">>), Str(<<"s", "e", "p", "t", "e", "m", "b", "e", "r">>), Str(<<"o", "c", "t", "o", "b", "e", "r">>), Str(<<"n", "o", "v", "e", "m", "b", "e", "r">>), Str(<<"d", "e", "c", "e", "m", "b", "e", "r">>)>>)>> \o <<Q(Space, 1, -1)>> \o <<Q(Digit, 1, 2)>> \o <<Q(Ch(","), 0, 1)>> \o <<Q(Space, 1, -1)>> \o <<Q(Digit, 4, 4)>> \o <<WordBoundary>> >>,
    \* \b\d{1,2}\s+(?:Jan|Feb|Mar|Apr|May|Jun|Jul|Aug|Sep|Oct|Nov|Dec)\s+\d{2,4}\b
    << <<WordBoundary>> \o <<Q(Digit, 1, 2)>> \o <<Q(Space, 1, -1)>> \o <<Alt(<<Str(<<"j", "a", "n">>), Str(<<"f", "e", "b">>), Str(<<"m", "a", "r">>), Str(<<"a", "p", "r">>), Str(<<"m", "a", "y">>), Str(<<"j", "u", "n">>), Str(<<"j", "u", "l">>), Str(<<"a", "u", "g">>), Str(<<"s", "e", "p">>), Str(<<"o", "c", "t">>), Str(<<"n", "o", "v">>), Str(<<"d", "e", "c">>)>>)>> \o <<Q(Space, 1, -1)>> \o <<Q(Digit, 2, 4)>> \o <<WordBoundary>> >>
  >>

----------------------------------------------------------------------------
(* Helpers for Python's lists, sets and dicts *)

Take(s, n) == SubSeq(s, 1, IF Len(s) < n THEN Len(s) ELSE n)

Range(s) == {s[k] : k \in 1..Len(s)}

RECURSIVE Dedup(_)
\* the distinct elements of s, each at its first position
Dedup(s) ==
  IF s = <<>> THEN <<>>
  ELSE LET d == Dedup(SubSeq(s, 1, Len(s) - 1))
       IN IF s[Len(s)] \in Range(d) THEN d ELSE Append(d, s[Len(s)])

Reverse(s) == SubSeq([k \in 1..Len(s) |-> s[Len(s) + 1 - k]], 1, Len(s))

Rotate(s, n) ==
  SubSeq([k \in 1..Len(s) |-> s[((k - 1 + n) % Len(s)) + 1]], 1, Len(s))

\* The order in which Python iterates set(s).  It follows the strings' hashes,
\* which are salted per process: the order is one of the permutations of the
\* distinct elements, fixed by the process's hash seed.
SetOrder(s, seed) ==
  LET d == Dedup(s)
  IN IF d = <<>> THEN d
     ELSE IF seed % 2 = 1 THEN Reverse(Rotate(d, seed \div 2))
     ELSE Rotate(d, seed \div 2)

\* the keys of an ordered mapping (a dict): a sequence of [key, ...] records
Keys(m) == {m[k].key : k \in 1..Len(m)}

\* whether w occurs in s (Python's `w in s`)
Contains(s, w) ==
  \E k \in 1..(Len(s) - Len(w) + 1) : SubSeq(s, k, k + Len(w) - 1) = w

RECURSIVE Flatten(_)
Flatten(ss) == IF ss = <<>> THEN <<>> ELSE Head(ss) \o Flatten(Tail(ss))

\* len(d): the keys counted instead of the contexts
SumLen_keys(m) == Len(m)

RECURSIVE SumLen(_)
\* sum(len(x.contexts) for x in m)
SumLen(m) == IF m = <<>> THEN 0 ELSE Len(Head(m).contexts) + SumLen(Tail(m))

----------------------------------------------------------------------------
(* find_matches *)

\* found[:5]: the number of occurrences a rule's contexts are taken from
MaxExamples == 5

\* .{0,100} on each side of the match
ContextWindow == 100

\* a window one character too wide on each side
pattern_with_context_wide(match) ==
  << <<Q(Dot, 0, ContextWindow + 1)>> \o Compile(re_escape(match))
     \o <<Q(Dot, 0, ContextWindow + 1)>> >>

\* r'.{0,100}' + re.escape(match) + r'.{0,100}'
pattern_with_context(match) ==
  << <<Q(Dot, 0, ContextWindow)>> \o Compile(re_escape(match))
     \o <<Q(Dot, 0, ContextWindow)>> >>

\* context_matches[-1]: the last window instead of the first
FirstContext_last(context_matches) ==
  IF context_matches # <<>>
  THEN <<strip(context_matches[Len(context_matches)])>>
  ELSE <<>>

\* if context_matches: matches[name].append(context_matches[0].strip())
FirstContext(context_matches) ==
  IF context_matches # <<>> THEN <<strip(context_matches[1])>> ELSE <<>>

RECURSIVE ContextsOf(_, _)
\* the loop of find_matches over the matches, in iteration order
ContextsOf(text, matches) ==
  IF matches = <<>> THEN <<>>
  ELSE FirstContext(findall(pattern_with_context(Head(matches)), text))
       \o ContextsOf(text, Tail(matches))

\* without the `if found:` guard: an entry for every rule
RuleEntry_unguarded(text, key, found, seed) ==
  <<[key |-> key,
     contexts |-> ContextsOf(text, SetOrder(Take(found, MaxExamples), seed))]>>

\* if found: matches[name] = [] and the loop over set(found[:5])
RuleEntry(text, key, found, seed) ==
  IF found # <<>>
  THEN <<[key |-> key,
          contexts |-> ContextsOf(text, SetOrder(Take(found, MaxExamples), seed))]>>
  ELSE <<>>

\* one rule of find_matches: the entry of `matches` it adds, if any
MatchRule(text, rule, seed) ==
  RuleEntry(text, rule.key, findall(rule.pattern, text), seed)

RECURSIVE find_matches(_, _, _)
\* find_matches(text, patterns): an ordered mapping key -> contexts
find_matches(text, patterns, seed) ==
  IF patterns = <<>> THEN <<>>
  ELSE MatchRule(text, Head(patterns), seed) \o find_matches(text, Tail(patterns), seed)

----------------------------------------------------------------------------
(* extract_deadlines *)

\* .{0,50} on each side of a date
DeadlineWindow == 50

\* [:10]
MaxDeadlines == 10

DeadlineWords ==
  << <<"d", "u", "e">>, <<"d", "e", "a", "d", "l", "i", "n", "e">>,
     <<"s", "u", "b", "m", "i", "t">>, <<"c", "l", "o", "s", "e">>, <<"b", "y">> >>

\* any(word in context.lower() for word in [...])
HasDeadlineWord(context) ==
  \E k \in 1..Len(DeadlineWords) : Contains(lower(context), DeadlineWords[k])

context_pattern(date) ==
  << <<Q(Dot, 0, DeadlineWindow)>> \o Compile(re_escape(date))
     \o <<Q(Dot, 0, DeadlineWindow)>> >>

RECURSIVE KeepDeadlines(_)
\* the inner loop: the stripped contexts that hold a deadline word
KeepDeadlines(contexts) ==
  IF contexts = <<>> THEN <<>>
  ELSE (IF HasDeadlineWord(Head(contexts)) THEN <<strip(Head(contexts))>> ELSE <<>>)
       \o KeepDeadlines(Tail(contexts))

RECURSIVE DeadlinesOfDates(_, _)
DeadlinesOfDates(text, dates) ==
  IF dates = <<>> THEN <<>>
  ELSE KeepDeadlines(findall(context_pattern(Head(dates)), text))
       \o DeadlinesOfDates(text, Tail(dates))

RECURSIVE DeadlinesOfPatterns(_, _)
DeadlinesOfPatterns(text, patterns) ==
  IF patterns = <<>> THEN <<>>
  ELSE DeadlinesOfDates(text, findall(Head(patterns), text))
       \o DeadlinesOfPatterns(text, Tail(patterns))

\* deadlines[:10]: capped, duplicates kept
extract_deadlines_duplicates(text, seed) ==
  Take(DeadlinesOfPatterns(text, date_patterns), MaxDeadlines)

\* extract_deadlines(text): list(set(deadlines))[:10]
extract_deadlines(text, seed) ==
  Take(SetOrder(DeadlinesOfPatterns(text, date_patterns), seed), MaxDeadlines)

----------------------------------------------------------------------------
(* analyze_document *)

\* text.count('\n') // 50
LinesPerPage == 50

\* s.count(c)
CountChar(s, c) == Cardinality({k \in 1..Len(s) : s[k] = c})

\* len(text.split(' ')): one more than the number of spaces
WordCount_split_on_space(s) == Cardinality({k \in 1..Len(s) : s[k] = " "}) + 1

\* len(text.split()): the number of maximal runs of non-whitespace
WordCount(s) ==
  Cardinality({k \in 1..Len(s) :
                 s[k] \notin Whitespace /\ (k = 1 \/ s[k - 1] \in Whitespace)})

\* {term: re.escape(term) for term in custom_terms}
custom_patterns(custom_terms) ==
  IF custom_terms = <<>> THEN <<>>
  ELSE LET d == Dedup(custom_terms)
       IN SubSeq([k \in 1..Len(d) |->
                    [key |-> d[k], pattern |-> <<Compile(re_escape(d[k]))>>]],
                 1, Len(d))

\* the results dict and its statistics
Results(text, instructions, high, medium, low, federal_items, custom_searches, deadlines) ==
  [instructions |-> instructions,
   risks |-> [high |-> high, medium |-> medium, low |-> low],
   federal_items |-> federal_items,
   custom_searches |-> custom_searches,
   deadlines |-> deadlines,
   statistics |->
     [total_pages |-> CountChar(text, "\n") \div LinesPerPage,
      word_count |-> WordCount(text),
      risk_count |-> SumLen(high) + SumLen(medium) + SumLen(low),
      instruction_count |-> SumLen(instructions)]]

analyze_document(text, custom_terms, seed) ==
  Results(text,
          find_matches(text, INSTRUCTION_PATTERNS, seed),
          find_matches(text, RISK_PATTERNS_high, seed),
          find_matches(text, RISK_PATTERNS_medium, seed),
          find_matches(text, RISK_PATTERNS_low, seed),
          find_matches(text, FEDERAL_PATTERNS, seed),
          IF custom_terms # <<>>
          THEN find_matches(text, custom_patterns(custom_terms), seed)
          ELSE <<>>,
          extract_deadlines(text, seed))

----------------------------------------------------------------------------
(* The strings of the report *)

S_Summary == <<"S", "u", "m", "m", "a", "r", "y">>
S_Metric == <<"M", "e", "t", "r", "i", "c">>
S_Value == <<"V", "a", "l", "u", "e">>
S_TotalWordCount == <<"T", "o", "t", "a", "l", " ", "W", "o", "r", "d",
                        " ", "C", "o", "u", "n", "t">>
S_EstimatedPages == <<"E", "s", "t", "i", "m", "a", "t", "e", "d", " ",
                        "P", "a", "g", "e", "s">>
S_TotalRisksIdentified == <<"T", "o", "t", "a", "l", " ", "R", "i", "s",
                              "k", "s", " ", "I", "d", "e", "n", "t", "i",
                              "f", "i", "e", "d">>
S_TotalInstructionsFound == <<"T", "o", "t", "a", "l", " ", "I", "n", "s",
                                "t", "r", "u", "c", "t", "i", "o", "n", "s",
                                " ", "F", "o", "u", "n", "d">>
S_DeadlinesFound == <<"D", "e", "a", "d", "l", "i", "n", "e", "s", " ",
                        "F", "o", "u", "n", "d">>
S_Instructions == <<"I", "n", "s", "t", "r", "u", "c", "t", "i", "o", "n",
                      "s">>
S_Category == <<"C", "a", "t", "e", "g", "o", "r", "y">>
S_Instruction == <<"I", "n", "s", "t", "r", "u", "c", "t", "i", "o", "n">>
L_high == <<"h", "i", "g", "h">>
L_medium == <<"m", "e", "d", "i", "u", "m">>
L_low == <<"l", "o", "w">>
S_Risks == <<"R", "i", "s", "k", "s">>
S_RiskLevel == <<"R", "i", "s", "k", " ", "L", "e", "v", "e", "l">>
S_RiskType == <<"R", "i", "s", "k", " ", "T", "y", "p", "e">>
S_Context == <<"C", "o", "n", "t", "e", "x", "t">>
S_Deadlines == <<"D", "e", "a", "d", "l", "i", "n", "e", "s">>
S_DeadlineInformation == <<"D", "e", "a", "d", "l", "i", "n", "e", " ",
                             "I", "n", "f", "o", "r", "m", "a", "t", "i",
                             "o", "n">>
S_FederalRequirements == <<"F", "e", "d", "e", "r", "a", "l", " ", "R",
                             "e", "q", "u", "i", "r", "e", "m", "e", "n",
                             "t", "s">>
S_Reference == <<"R", "e", "f", "e", "r", "e", "n", "c", "e">>
S_CustomSearches == <<"C", "u", "s", "t", "o", "m", " ", "S", "e", "a",
                        "r", "c", "h", "e", "s">>
S_SearchTerm == <<"S", "e", "a", "r", "c", "h", " ", "T", "e", "r", "m">>

----------------------------------------------------------------------------
(* create_excel_report *)

\* str.upper()
upper(s) == SubSeq([k \in 1..Len(s) |-> UpperChar(s[k])], 1, Len(s))

\* str.replace('_', ' ')
ReplaceUnderscores(s) ==
  SubSeq([k \in 1..Len(s) |-> IF s[k] = "_" THEN " " ELSE s[k]], 1, Len(s))

\* str.title(): a letter after a letter in lower case, any other letter in
\* upper case
title(s) ==
  SubSeq([k \in 1..Len(s) |->
            IF k > 1 /\ s[k - 1] \in UpperSet \cup LowerSet
            THEN LowerChar(s[k]) ELSE UpperChar(s[k])], 1, Len(s))

\* category.replace('_', ' ').title()
Label(key) == title(ReplaceUnderscores(key))

RECURSIVE DigitCount(_)
\* len(str(n)) of a number n >= 0
DigitCount(n) == IF n < 10 THEN 1 ELSE 1 + DigitCount(n \div 10)

\* len(str(cell.value)): a cell holds a string, or a number in the columns
\* `numeric`
CellLen(v, isNumber) == IF isNumber THEN DigitCount(v) ELSE Len(v)

\* min(max_length + 2, 50)
WidthPadding == 2
MaxColumnWidth == 50

Max(S) == CHOOSE x \in S : \A y \in S : y <= x

\* the width the formatting loop gives column c of a sheet: the header cell
\* and every row's cell count
ColumnWidth(columns, rows, numeric, c) ==
  LET max_length ==
        Max({0, Len(columns[c])}
            \cup {CellLen(rows[k][c], c \in numeric) : k \in 1..Len(rows)})
  IN IF max_length + WidthPadding < MaxColumnWidth
     THEN max_length + WidthPadding ELSE MaxColumnWidth

\* DataFrame(...).to_excel(writer, sheet_name=name, index=False) followed by
\* the formatting loop: a header row, the rows, and the column widths
Sheet(name, columns, rows, numeric) ==
  [name |-> name, columns |-> columns, rows |-> rows,
   widths |-> SubSeq([c \in 1..Len(columns) |->
                        ColumnWidth(columns, rows, numeric, c)],
                     1, Len(columns))]

RECURSIVE CategoryRows(_)
\* one row per (category, item) of an ordered mapping: <<label, item>>
CategoryRows(m) ==
  IF m = <<>> THEN <<>>
  ELSE LET e == Head(m)
       IN SubSeq([k \in 1..Len(e.contexts) |-> <<Label(e.key), e.contexts[k]>>],
                 1, Len(e.contexts))
          \o CategoryRows(Tail(m))

RECURSIVE RiskLevelRows(_, _)
\* the rows of one risk level: <<LEVEL, label, item>>
RiskLevelRows(level, m) ==
  IF m = <<>> THEN <<>>
  ELSE LET e == Head(m)
       IN SubSeq([k \in 1..Len(e.contexts) |->
                    <<upper(level), Label(e.key), e.contexts[k]>>],
                 1, Len(e.contexts))
          \o RiskLevelRows(level, Tail(m))

RECURSIVE CustomRows(_)
\* one row per (term, item): the term as it was typed
CustomRows(m) ==
  IF m = <<>> THEN <<>>
  ELSE LET e == Head(m)
       IN SubSeq([k \in 1..Len(e.contexts) |-> <<e.key, e.contexts[k]>>],
                 1, Len(e.contexts))
          \o CustomRows(Tail(m))

SummarySheet(results) ==
  Sheet(S_Summary, <<S_Metric, S_Value>>,
        << <<S_TotalWordCount, results.statistics.word_count>>,
           <<S_EstimatedPages, results.statistics.total_pages>>,
           <<S_TotalRisksIdentified, results.statistics.risk_count>>,
           <<S_TotalInstructionsFound, results.statistics.instruction_count>>,
           <<S_DeadlinesFound, Len(results.deadlines)>> >>,
        {2})

\* the Instructions sheet written without the `if instruction_rows` guard
InstructionsSheet_unguarded(results) ==
  <<Sheet(S_Instructions, <<S_Category, S_Instruction>>,
          CategoryRows(results.instructions), {})>>

InstructionsSheet(results) ==
  LET instruction_rows == CategoryRows(results.instructions)
  IN IF instruction_rows # <<>>
     THEN <<Sheet(S_Instructions, <<S_Category, S_Instruction>>, instruction_rows, {})>>
     ELSE <<>>

RisksSheet(results) ==
  LET risk_rows == RiskLevelRows(L_high, results.risks.high)
                   \o RiskLevelRows(L_medium, results.risks.medium)
                   \o RiskLevelRows(L_low, results.risks.low)
  IN IF risk_rows # <<>>
     THEN <<Sheet(S_Risks, <<S_RiskLevel, S_RiskType, S_Context>>, risk_rows, {})>>
     ELSE <<>>

DeadlinesSheet(results) ==
  IF results.deadlines # <<>>
  THEN <<Sheet(S_Deadlines, <<S_DeadlineInformation>>,
               SubSeq([k \in 1..Len(results.deadlines) |-> <<results.deadlines[k]>>],
                      1, Len(results.deadlines)),
               {})>>
  ELSE <<>>

FederalSheet(results) ==
  IF results.federal_items # <<>>
  THEN LET federal_rows == CategoryRows(results.federal_items)
       IN IF federal_rows # <<>>
          THEN <<Sheet(S_FederalRequirements, <<S_Category, S_Reference>>, federal_rows, {})>>
          ELSE <<>>
  ELSE <<>>

CustomSheet(results) ==
  IF results.custom_searches # <<>>
  THEN LET custom_rows == CustomRows(results.custom_searches)
       IN IF custom_rows # <<>>
          THEN <<Sheet(S_CustomSearches, <<S_SearchTerm, S_Context>>, custom_rows, {})>>
          ELSE <<>>
  ELSE <<>>

\* create_excel_report(results): the workbook's sheets, in the order written
create_excel_report(results) ==
  <<SummarySheet(results)>> \o InstructionsSheet(results) \o RisksSheet(results)
  \o DeadlinesSheet(results) \o FederalSheet(results) \o CustomSheet(results)

----------------------------------------------------------------------------
(* Text extraction *)

\* An uploaded file: its name and MIME type, whether the parsing library can
\* read it, and what the library finds in it: the text of each page of a
\* PDF, the paragraphs of a DOCX and its tables (rows of cells).

RECURSIVE PagesText(_)
\* for page in pdf_reader.pages: text += page.extract_text() + "\n"
PagesText(pages) ==
  IF pages = <<>> THEN <<>>
  ELSE Head(pages) \o <<"\n">> \o PagesText(Tail(pages))

RECURSIVE CellsText(_)
\* for cell in row.cells: text += cell.text + "\t"
CellsText(cells) ==
  IF cells = <<>> THEN <<>>
  ELSE Head(cells) \o <<"\t">> \o CellsText(Tail(cells))

RECURSIVE RowsText(_)
\* for row in table.rows: ...; text += "\n"
RowsText(rows) ==
  IF rows = <<>> THEN <<>>
  ELSE CellsText(Head(rows)) \o <<"\n">> \o RowsText(Tail(rows))

RECURSIVE TablesText(_)
\* for table in doc.tables
TablesText(tables) ==
  IF tables = <<>> THEN <<>>
  ELSE RowsText(Head(tables)) \o TablesText(Tail(tables))

\* extract_text_from_pdf without the try/except: the library's exception
\* leaves the function
extract_text_from_pdf_uncaught(file) ==
  IF file.readable
  THEN [text |-> PagesText(file.pages), raised |-> FALSE]
  ELSE [text |-> <<>>, raised |-> TRUE]

\* extract_text_from_pdf(file): the text returned and whether an exception
\* leaves the function; the library's exception on a file it cannot read is
\* caught and "" returned
extract_text_from_pdf(file) ==
  IF file.readable
  THEN [text |-> PagesText(file.pages), raised |-> FALSE]
  ELSE [text |-> <<>>, raised |-> FALSE]

\* extract_text_from_docx(file), likewise
extract_text_from_docx(file) ==
  IF file.readable
  THEN [text |-> PagesText(file.paragraphs) \o TablesText(file.tables),
        raised |-> FALSE]
  ELSE [text |-> <<>>, raised |-> FALSE]

----------------------------------------------------------------------------
(* State *)

VARIABLES
  hash_seed,         \* the process's string-hash seed (fixes set iteration order)
  text,              \* the text argument of the function under check
  patterns,          \* find_matches's patterns argument
  matches,           \* find_matches's return value: <<>> before the call, <<m>> after
  deadlines,         \* extract_deadlines's return value, likewise
  terms,             \* analyze_document's custom_terms argument
  results,           \* analyze_document's return value, likewise
  report,            \* create_excel_report's return value, likewise
  custom_terms,      \* st.session_state.custom_terms
  analysis_results,  \* st.session_state.analysis_results: <<>> is None, else <<r>>
  uploaded_files,    \* the files in the uploader
  status,            \* what the last run of the script showed for Analyze
  extracted,         \* the files the last Analyze handler ran an extractor on
  calls,             \* the texts the last Analyze handler passed to analyze_document
  excel_data         \* the report the last run of the script built: <<>> or <<r>>

fnVars == <<text, patterns, matches, deadlines, terms, results, report>>
appVars == <<custom_terms, analysis_results, uploaded_files, status, extracted,
             calls, excel_data>>
vars == <<hash_seed, fnVars, appVars>>

\* the number of hash seeds examined
HashSeeds == 2

Seeds == 0..(HashSeeds - 1)

FnIdle ==
  /\ text = <<>> /\ patterns = <<>> /\ matches = <<>> /\ deadlines = <<>>
  /\ terms = <<>> /\ results = <<>> /\ report = <<>>

AppIdle ==
  /\ custom_terms = <<>> /\ analysis_results = <<>> /\ uploaded_files = <<>>
  /\ status = "none" /\ extracted = <<>> /\ calls = <<>> /\ excel_data = <<>>

----------------------------------------------------------------------------
(* find_matches, called on a text and a pattern mapping *)

\* the words the texts are made of: matches of the rules `warranty` and
\* `confidentiality` in several spellings, each with the separator after it
Variants ==
  << <<"w", "a", "r", "r", "a", "n", "t", "y", " ">>,
     <<"g", "u", "a", "r", "a", "n", "t", "e", "e", "\n">>,
     <<"W", "a", "r", "r", "a", "n", "t", "y", " ">>,
     <<"w", "a", "r", "r", "a", "n", "t", "i", " ">>,
     <<"W", "A", "R", "R", "A", "N", "T", "Y", "\n">>,
     <<"c", "o", "n", "f", "i", "d", "e", "n", "t", "i", "a", "l", " ">>,
     <<"G", "u", "a", "r", "a", "n", "t", "e", "e", " ">>,
     <<"G", "U", "A", "R", "A", "N", "T", "E", "E", " ">> >>

\* the number of words of a text
MaxWords == 6

RECURSIVE MaxOf(_)
\* the greatest number of a sequence of numbers >= 0
MaxOf(s) ==
  IF s = <<>> THEN 0
  ELSE LET m == MaxOf(Tail(s)) IN IF Head(s) > m THEN Head(s) ELSE m

RECURSIVE WordChoices(_)
\* the sequences of n word numbers in which every word is one used before or
\* the next unused one: every pattern of repetition of n words
WordChoices(n) ==
  IF n = 0 THEN {<<>>}
  ELSE UNION {{Append(s, k) : k \in 1..(MaxOf(s) + 1)} : s \in WordChoices(n - 1)}

RECURSIVE WordsText(_)
WordsText(choice) ==
  IF choice = <<>> THEN <<>>
  ELSE Variants[IF Head(choice) > Len(Variants) THEN Len(Variants) ELSE Head(choice)]
       \o WordsText(Tail(choice))

Pad(n) == SubSeq([k \in 1..n |-> "x"], 1, n)

\* one word with more than a window of characters around it
LongTexts ==
  {Pad(a) \o <<" ", "g", "u", "a", "r", "a", "n", "t", "e", "e", " ">> \o Pad(b) :
     a \in {ContextWindow - 1, ContextWindow}, b \in {ContextWindow - 1, ContextWindow}}

\* one word twice on a line, the second time at the edge of the window of the
\* first, and more than a window of characters after it
RepeatTexts ==
  {<<"g", "u", "a", "r", "a", "n", "t", "e", "e", " ">> \o Pad(a)
     \o <<" ", "g", "u", "a", "r", "a", "n", "t", "e", "e", " ">>
     \o Pad(ContextWindow + 1) :
     a \in {ContextWindow - 11, ContextWindow - 10}}

MatchTexts ==
  LongTexts \cup RepeatTexts \cup UNION {{WordsText(c) : c \in WordChoices(n)} : n \in 0..MaxWords}

MatchPatterns == {RISK_PATTERNS_medium, FEDERAL_PATTERNS}

InitFindMatches ==
  /\ hash_seed \in Seeds
  /\ text \in MatchTexts
  /\ patterns \in MatchPatterns
  /\ matches = <<>>
  /\ deadlines = <<>> /\ terms = <<>> /\ results = <<>> /\ report = <<>>
  /\ report = <<>>
  /\ AppIdle

CallFindMatches ==
  /\ matches = <<>>
  /\ matches' = <<find_matches(text, patterns, hash_seed)>>
  /\ UNCHANGED <<hash_seed, text, patterns, deadlines, terms, results, report,
                 appVars>>

NextFindMatches == CallFindMatches

SpecFindMatches == InitFindMatches /\ [][NextFindMatches]_vars

----------------------------------------------------------------------------
(* extract_deadlines, called on a text *)

\* the lines the texts are made of: dates in the three shapes, with and
\* without a deadline word, one line twice, one line with two dates
DeadlineLines ==
  << <<"d", "u", "e", " ", "1", "/", "1", "/", "2", "1", "\n">>,
     <<"b", "y", " ", "1", "/", "1", "/", "2", "1", "\n">>,
     <<"S", "u", "b", "m", "i", "t", " ", "2", "-", "2", "-", "2", "0",
         "2", "2", "\n">>,
     <<"c", "l", "o", "s", "e", "s", " ", "M", "a", "r", "c", "h", " ",
         "3", ",", " ", "2", "0", "2", "3", "\n">>,
     <<"D", "E", "A", "D", "L", "I", "N", "E", " ", "4", " ", "A", "p",
         "r", " ", "2", "4", "\n">>,
     <<"s", "i", "g", "n", "e", "d", " ", "5", "/", "5", "/", "2", "5",
         "\n">>,
     <<"d", "u", "e", " ", "1", "/", "1", "/", "2", "1", "\n">>,
     <<"D", "u", "e", " ", "6", "/", "6", "/", "2", "6", " ", "o", "r",
         " ", "7", "/", "7", "/", "2", "7", "\n">>,
     <<"c", "l", "o", "s", "e", " ", "8", "/", "8", "/", "2", "8", "\n">>,
     <<"b", "y", " ", "9", "/", "9", "/", "2", "9", "\n">>,
     <<"s", "u", "b", "m", "i", "t", " ", "1", "0", "/", "1", "0", "/",
         "3", "0", "\n">>,
     <<"d", "e", "a", "d", "l", "i", "n", "e", " ", "J", "a", "n", "u",
         "a", "r", "y", " ", "1", "1", ",", " ", "2", "0", "3", "1", "\n">>,
     <<"d", "u", "e", " ", "1", "2", " ", "D", "e", "c", " ", "2", "0",
         "3", "2", "\n">>,
     <<"b", "y", " ", "1", "/", "1", "3", "/", "3", "3", "\n">>,
     <<"c", "l", "o", "s", "e", " ", "1", "/", "1", "4", "/", "3", "4",
         "\n">> >>

\* the number of lines of a text
MaxLines == 12

\* the texts: MaxLines or fewer consecutive lines
DeadlineTexts ==
  {Flatten(SubSeq(DeadlineLines, w[1], w[2])) :
     w \in {w \in (1..Len(DeadlineLines)) \X (0..Len(DeadlineLines)) :
              w[2] - w[1] < MaxLines}}

InitDeadlines ==
  /\ hash_seed \in Seeds
  /\ text \in DeadlineTexts
  /\ deadlines = <<>>
  /\ patterns = <<>> /\ matches = <<>> /\ terms = <<>> /\ results = <<>>
  /\ report = <<>>
  /\ AppIdle

CallExtractDeadlines ==
  /\ deadlines = <<>>
  /\ deadlines' = <<extract_deadlines(text, hash_seed)>>
  /\ UNCHANGED <<hash_seed, text, patterns, matches, terms, results, report,
                 appVars>>

NextDeadlines == CallExtractDeadlines

SpecDeadlines == InitDeadlines /\ [][NextDeadlines]_vars

----------------------------------------------------------------------------
(* analyze_document and create_excel_report, called on a text and a list of
   custom terms *)

\* the lines the document texts are made of: an instruction with a deadline,
\* a high risk, a federal reference, two lines for the custom terms, and a
\* line with a medium risk found twice, a low risk and an instruction
Fragments ==
  << <<"S", "u", "b", "m", "i", "t", " ", "b", "y", " ", "3", "/", "4",
         "/", "2", "5", ".", "\n">>,
     <<"L", "i", "q", "u", "i", "d", "a", "t", "e", "d", " ", "D", "a",
         "m", "a", "g", "e", "s", " ", "a", "p", "p", "l", "y", ".", "\n">>,
     <<"S", "e", "e", " ", "F", "A", "R", " ", "5", "2", ".", "2", "1",
         "2", "-", "4", ".", "\n">>,
     <<"R", "a", "t", "e", " ", "a", ".", "b", " ", "i", "s", " ", "f",
         "i", "x", "e", "d", ".", "\n">>,
     <<"R", "a", "t", "e", " ", "a", "x", "b", " ", "i", "s", " ", "o",
         "p", "e", "n", ".", "\n">>,
     <<"W", "a", "r", "r", "a", "n", "t", "y", " ", "o", "r", " ", "g",
         "u", "a", "r", "a", "n", "t", "e", "e", ",", " ", "m", "i", "l",
         "e", "s", "t", "o", "n", "e", ",", " ", "f", "o", "n", "t", " ",
         "s", "i", "z", "e", ".", "\n">> >>

\* the number of lines of a document text
MaxFrags == 3

RECURSIVE SubSeqsOf(_, _)
\* the sequences of at most n elements of s, in the order of s
SubSeqsOf(s, n) ==
  IF s = <<>> \/ n = 0 THEN {<<>>}
  ELSE SubSeqsOf(Tail(s), n)
       \cup {<<Head(s)>> \o r : r \in SubSeqsOf(Tail(s), n - 1)}

\* n newline characters
Newlines(n) == SubSeq([k \in 1..n |-> "\n"], 1, n)

\* the texts without a word: blank, and with a newline count just below
\* and at the number of lines of a page
BlankTexts ==
  {<<>>, <<" ", "\t">>, Newlines(LinesPerPage - 1), Newlines(LinesPerPage),
   Newlines(LinesPerPage) \o <<" ">>}

AnalyzeTexts ==
  BlankTexts \cup {Flatten(c) : c \in SubSeqsOf(Fragments, MaxFrags)}

\* the custom terms a user may have typed: the empty term, a blank one, one
\* with a regex metacharacter, one in another letter case than the text, and
\* one that is in no text
TermList ==
  << <<>>,
     <<" ">>,
     <<"a", ".", "b">>,
     <<"D", "a", "m", "a", "g", "e", "s">>,
     <<"z", "e", "b", "r", "a">> >>

\* the number of custom terms
MaxTerms == 3

\* the lists of custom terms: MaxTerms or fewer consecutive terms
TermLists ==
  {SubSeq(TermList, w[1], w[2]) :
     w \in {w \in (1..Len(TermList)) \X (0..Len(TermList)) :
              w[2] - w[1] < MaxTerms}}

InitAnalyze ==
  /\ hash_seed \in Seeds
  /\ text \in AnalyzeTexts
  /\ terms \in TermLists
  /\ results = <<>>
  /\ report = <<>>
  /\ patterns = <<>> /\ matches = <<>> /\ deadlines = <<>>
  /\ AppIdle

\* results = analyze_document(text, custom_terms)
CallAnalyze ==
  /\ results = <<>>
  /\ results' = <<analyze_document(text, terms, hash_seed)>>
  /\ UNCHANGED <<hash_seed, text, patterns, matches, deadlines, terms, report,
                 appVars>>

\* excel_data = create_excel_report(results)
CallReport ==
  /\ results # <<>>
  /\ report = <<>>
  /\ report' = <<create_excel_report(results[1])>>
  /\ UNCHANGED <<hash_seed, text, patterns, matches, deadlines, terms, results,
                 appVars>>

NextAnalyze == CallAnalyze \/ CallReport

SpecAnalyze == InitAnalyze /\ [][NextAnalyze]_vars

----------------------------------------------------------------------------
(* The application: one action per run of the script, started by a widget *)

PdfType == "application/pdf"
DocxType == "application/vnd.openxmlformats-officedocument.wordprocessingml.document"

CorruptPdf ==
  [name |-> <<"c", "o", "r", "r", "u", "p", "t", ".", "p", "d", "f">>, type |-> PdfType, readable |-> FALSE,
   pages |-> <<>>, paragraphs |-> <<>>, tables |-> <<>>]

CorruptDocx ==
  [name |-> <<"c", "o", "r", "r", "u", "p", "t", ".", "d", "o", "c", "x">>, type |-> DocxType, readable |-> FALSE,
   pages |-> <<>>, paragraphs |-> <<>>, tables |-> <<>>]

\* a document with one empty paragraph
BlankDocx ==
  [name |-> <<"b", "l", "a", "n", "k", ".", "d", "o", "c", "x">>, type |-> DocxType, readable |-> TRUE,
   pages |-> <<>>, paragraphs |-> << <<>> >>, tables |-> <<>>]

\* a PDF of two pages
GoodPdf ==
  [name |-> <<"g", "o", "o", "d", ".", "p", "d", "f">>, type |-> PdfType, readable |-> TRUE,
   pages |-> << <<"S", "u", "b", "m", "i", "t", " ", "b", "y", " ", "3",
                 "/", "4", "/", "2", "5", ".">>,
               <<"L", "i", "q", "u", "i", "d", "a", "t", "e", "d", " ",
                 "D", "a", "m", "a", "g", "e", "s", " ", "a", "p", "p",
                 "l", "y", ".">> >>,
   paragraphs |-> <<>>, tables |-> <<>>]

\* a document of one paragraph and one table of one row of two cells
GoodDocx ==
  [name |-> <<"g", "o", "o", "d", ".", "d", "o", "c", "x">>, type |-> DocxType, readable |-> TRUE,
   pages |-> <<>>,
   paragraphs |-> << <<"S", "e", "e", " ", "F", "A", "R", " ", "5", "2",
                      ".", "2", "1", "2", "-", "4", ".">> >>,
   tables |-> << << << <<"N", "e", "t">>, <<"3", "0">> >> >> >>]

\* what the user may put in the uploader
Batches ==
  {<<CorruptPdf>>, <<BlankDocx>>, <<CorruptPdf, GoodDocx>>,
   <<GoodPdf, CorruptDocx>>, <<GoodPdf, GoodDocx>>}

\* what the user may type in the term box
TermInputs == {<<>>, <<"D", "a", "m", "a", "g", "e", "s">>}

\* the number of custom terms the user adds
MaxCustomTerms == 1

\* lines 66-69: the session state of a new session
Init ==
  /\ hash_seed \in Seeds
  /\ custom_terms = <<>>
  /\ analysis_results = <<>>
  /\ uploaded_files = <<>>
  /\ status = "none" /\ extracted = <<>> /\ calls = <<>> /\ excel_data = <<>>
  /\ FnIdle

\* the end of every run of the script: the report is built when there is a
\* stored result
Render(stored) ==
  IF stored # <<>> THEN <<create_excel_report(stored[1])>> ELSE <<>>

\* a run of the script in which the Analyze button is not clicked
NoAnalyze ==
  /\ status' = "none" /\ extracted' = <<>> /\ calls' = <<>>
  /\ UNCHANGED analysis_results
  /\ excel_data' = Render(analysis_results)

\* "Add Term" clicked with new_term in the box
AddTerm ==
  \E new_term \in TermInputs :
    /\ Len(custom_terms) < MaxCustomTerms
    /\ custom_terms' = IF new_term # <<>> THEN Append(custom_terms, new_term)
                       ELSE custom_terms
    /\ NoAnalyze
    /\ UNCHANGED <<hash_seed, fnVars, uploaded_files>>

\* the remove button of term i clicked: pop(i) and st.rerun()
RemoveTerm ==
  \E i \in 1..Len(custom_terms) :
    /\ custom_terms' = SubSeq(custom_terms, 1, i - 1)
                       \o SubSeq(custom_terms, i + 1, Len(custom_terms))
    /\ NoAnalyze
    /\ UNCHANGED <<hash_seed, fnVars, uploaded_files>>

\* the files in the uploader changed
Upload ==
  \E files \in Batches \cup {<<>>} :
    /\ files # uploaded_files
    /\ uploaded_files' = files
    /\ NoAnalyze
    /\ UNCHANGED <<hash_seed, fnVars, custom_terms>>

\* f"\n\n--- Document: {file.name} ---\n\n"
DocumentMarker(name) ==
  <<"\n", "\n", "-", "-", "-", " ", "D", "o", "c", "u", "m", "e", "n", "t",
    ":", " ">>
  \o name \o <<" ", "-", "-", "-", "\n", "\n">>

\* the extractor the handler picks for a file
ExtractFile(file) ==
  IF file.type = PdfType THEN extract_text_from_pdf(file)
  ELSE extract_text_from_docx(file)

RECURSIVE ExtractLoop(_)
\* the loop over the uploaded files: for each file the extractor ran on, its
\* name, the text returned and whether an exception left the extractor,
\* which ends the loop
ExtractLoop(files) ==
  IF files = <<>> THEN <<>>
  ELSE LET e == ExtractFile(Head(files))
           entry == [name |-> Head(files).name, text |-> e.text,
                     raised |-> e.raised]
       IN IF e.raised THEN <<entry>>
          ELSE <<entry>> \o ExtractLoop(Tail(files))

RECURSIVE AllText(_)
\* all_text after the loop
AllText(entries) ==
  IF entries = <<>> THEN <<>>
  ELSE DocumentMarker(Head(entries).name) \o Head(entries).text
       \o AllText(Tail(entries))

\* "Analyze Documents" clicked
ClickAnalyze ==
  /\ uploaded_files # <<>>
  /\ LET entries == ExtractLoop(uploaded_files)
         all_text == AllText(entries)
     IN /\ extracted' = entries
        /\ IF \E k \in 1..Len(entries) : entries[k].raised
           THEN \* the exception ends the run of the script
                /\ status' = "exception"
                /\ calls' = <<>>
                /\ excel_data' = <<>>
                /\ UNCHANGED analysis_results
           ELSE IF strip(all_text) # <<>>
           THEN /\ calls' = <<all_text>>
                /\ analysis_results' =
                     <<analyze_document(all_text, custom_terms, hash_seed)>>
                /\ status' = "success"
                /\ excel_data' = Render(analysis_results')
           ELSE /\ calls' = <<>>
                /\ status' = "error"
                /\ UNCHANGED analysis_results
                /\ excel_data' = Render(analysis_results)
  /\ UNCHANGED <<hash_seed, fnVars, custom_terms, uploaded_files>>

Next == AddTerm \/ RemoveTerm \/ Upload \/ ClickAnalyze

Spec == Init /\ [][Next]_vars

----------------------------------------------------------------------------
(* Claims about find_matches (SpecFindMatches) *)

\* the literals the loop of find_matches builds contexts around, in the
\* order it visits them
LiteralsOf(rule) == SetOrder(Take(findall(rule.pattern, text), MaxExamples), hash_seed)

\* the rule of `patterns` with this key
RuleOf(key) == CHOOSE r \in Range(patterns) : r.key = key

\* C1: find_matches returns no key with an empty context list and no key
\* with more than 5 contexts.
C1_NoEmptyListAtMostFive ==
  matches # <<>> =>
    \A k \in 1..Len(matches[1]) :
      /\ matches[1][k].contexts # <<>>
      /\ Len(matches[1][k].contexts) <= 5

\* a text with more than 5 occurrences of one rule, which gets 5 contexts,
\* while another rule has no occurrence and no key
C1_Witness ==
  /\ matches # <<>>
  /\ \E k \in 1..Len(matches[1]) :
       /\ Len(matches[1][k].contexts) = 5
       /\ Len(findall(RuleOf(matches[1][k].key).pattern, text)) > 5
  /\ \E r \in Range(patterns) :
       findall(r.pattern, text) = <<>> /\ r.key \notin Keys(matches[1])

\* C5: every context is at most 200 characters longer than the literal it
\* was built around.
C5_ContextLength ==
  matches # <<>> =>
    \A k \in 1..Len(matches[1]) :
      LET literals == LiteralsOf(RuleOf(matches[1][k].key))
      IN \A j \in 1..Len(matches[1][k].contexts) :
           Len(matches[1][k].contexts[j]) <= 200 + Len(literals[j])

\* a context of exactly 200 characters plus its literal, cut out of a longer
\* line
C5_Witness ==
  /\ matches # <<>>
  /\ \E k \in 1..Len(matches[1]) :
       LET literals == LiteralsOf(RuleOf(matches[1][k].key))
       IN \E j \in 1..Len(matches[1][k].contexts) :
            /\ Len(matches[1][k].contexts[j]) = 200 + Len(literals[j])
            /\ Len(text) > 200 + Len(literals[j])

\* C10 (as claimed): a rule whose occurrences have d distinct literals gets
\* min(d, 5) contexts.
C10_DistinctThenCapped ==
  matches # <<>> =>
    \A r \in Range(patterns) :
      LET d == Cardinality(Range(findall(r.pattern, text)))
      IN d > 0 =>
           \E k \in 1..Len(matches[1]) :
             /\ matches[1][k].key = r.key
             /\ Len(matches[1][k].contexts) = (IF d < 5 THEN d ELSE 5)

----------------------------------------------------------------------------
(* Claims about extract_deadlines (SpecDeadlines) *)

\* C4: extract_deadlines returns at most 10 strings, no two of them equal,
\* each containing one of the deadline words in some letter case.
C4_DeadlinesCappedDistinctWorded ==
  deadlines # <<>> =>
    LET d == deadlines[1]
    IN /\ Len(d) <= 10
       /\ \A i, j \in 1..Len(d) : i # j => d[i] # d[j]
       /\ \A k \in 1..Len(d) :
            \E w \in Range(DeadlineWords) : Contains(lower(d[k]), w)

\* a text with more than 10 distinct deadline contexts, some found more than
\* once, and a date without a deadline word: 10 are returned
C4_Witness ==
  /\ deadlines # <<>>
  /\ Len(deadlines[1]) = 10
  /\ LET kept == DeadlinesOfPatterns(text, date_patterns)
     IN /\ Cardinality(Range(kept)) > 10
        /\ Len(kept) > Cardinality(Range(kept))
  /\ \E date \in Range(findall(date_patterns[1], text)) :
       \E c \in Range(findall(context_pattern(date), text)) : ~HasDeadlineWord(c)

----------------------------------------------------------------------------
(* Claims about analyze_document and create_excel_report (SpecAnalyze) *)

\* whether s has no character other than whitespace
IsBlank(s) == \A k \in 1..Len(s) : s[k] \in Whitespace

\* whether the report has a sheet of this name
HasSheet(r, name) == \E k \in 1..Len(r) : r[k].name = name

\* C3 (as stated): for every empty or whitespace-only text and every list of
\* custom terms, the result of analyze_document has empty instructions, risk
\* levels, federal_items, custom_searches and deadlines, and its four
\* statistics are all 0.
C3_BlankTextAllEmptyAllZero ==
  (results # <<>> /\ IsBlank(text)) =>
    LET r == results[1]
    IN /\ r.instructions = <<>>
       /\ r.risks.high = <<>> /\ r.risks.medium = <<>> /\ r.risks.low = <<>>
       /\ r.federal_items = <<>>
       /\ r.custom_searches = <<>>
       /\ r.deadlines = <<>>
       /\ r.statistics.word_count = 0
       /\ r.statistics.total_pages = 0
       /\ r.statistics.risk_count = 0
       /\ r.statistics.instruction_count = 0

\* C3 (amended): for every empty or whitespace-only text and every list of
\* custom terms, the result has empty instructions, risk levels,
\* federal_items and deadlines, and word_count, risk_count and
\* instruction_count are 0; total_pages is the number of newline characters
\* divided by 50, rounded down; the keys of custom_searches are the custom
\* terms that occur in the text (the empty term, and terms made of the
\* text's own whitespace).
C3_BlankTextNoFindings ==
  (results # <<>> /\ IsBlank(text)) =>
    LET r == results[1]
        newlines == Cardinality({k \in 1..Len(text) : text[k] = "\n"})
    IN /\ r.instructions = <<>>
       /\ r.risks.high = <<>> /\ r.risks.medium = <<>> /\ r.risks.low = <<>>
       /\ r.federal_items = <<>>
       /\ r.deadlines = <<>>
       /\ r.statistics.word_count = 0
       /\ r.statistics.risk_count = 0
       /\ r.statistics.instruction_count = 0
       /\ \E q \in 0..Len(text) :
            /\ r.statistics.total_pages = q
            /\ 50 * q <= newlines /\ newlines < 50 * (q + 1)
       /\ Keys(r.custom_searches) = {t \in Range(terms) : Contains(text, t)}

\* a whitespace-only text of a page's worth of newlines, analysed with a
\* blank custom term it holds: one page, one custom search
C3_Witness ==
  /\ results # <<>>
  /\ text # <<>> /\ IsBlank(text)
  /\ results[1].statistics.total_pages = 1
  /\ results[1].statistics.word_count = 0
  /\ results[1].custom_searches # <<>>
  /\ results[1].instructions = <<>>

\* C7: the report has the Instructions, Risks, Deadlines, Federal
\* Requirements and Custom Searches sheets exactly when the result has at
\* least one finding of that category; no sheet but Summary is written
\* without rows, and Summary is always written.
C7_SheetIffFindings ==
  report # <<>> =>
    LET r == report[1]
        res == results[1]
    IN /\ HasSheet(r, S_Summary)
       /\ HasSheet(r, S_Instructions) <=> SumLen(res.instructions) >= 1
       /\ HasSheet(r, S_Risks) <=>
            SumLen(res.risks.high) + SumLen(res.risks.medium)
              + SumLen(res.risks.low) >= 1
       /\ HasSheet(r, S_Deadlines) <=> Len(res.deadlines) >= 1
       /\ HasSheet(r, S_FederalRequirements) <=> SumLen(res.federal_items) >= 1
       /\ HasSheet(r, S_CustomSearches) <=> SumLen(res.custom_searches) >= 1
       /\ \A k \in 1..Len(r) : r[k].name # S_Summary => r[k].rows # <<>>

\* a report with some category sheets written and others left out
C7_Witness ==
  /\ report # <<>>
  /\ HasSheet(report[1], S_Summary)
  /\ HasSheet(report[1], S_Instructions)
  /\ HasSheet(report[1], S_Deadlines)
  /\ HasSheet(report[1], S_CustomSearches)
  /\ ~HasSheet(report[1], S_Risks)
  /\ ~HasSheet(report[1], S_FederalRequirements)

\* C9: the keys of custom_searches are exactly the custom terms that occur
\* in the text as a literal substring, compared case-insensitively; a term
\* without an occurrence has no key.
C9_CustomKeysAreOccurringTerms ==
  results # <<>> =>
    Keys(results[1].custom_searches)
      = {t \in Range(terms) : Contains(lower(text), lower(t))}

\* three distinct terms, one of them with a regex metacharacter, of which
\* two occur in the text: two keys
C9_Witness ==
  /\ results # <<>>
  /\ Len(terms) = 3 /\ Cardinality(Range(terms)) = 3
  /\ Cardinality(Keys(results[1].custom_searches)) = 2
  /\ \E t \in Keys(results[1].custom_searches) : "." \in Range(t)
  /\ \E t \in Range(terms) : ~Contains(lower(text), lower(t))

----------------------------------------------------------------------------
(* Claims about the Analyze action (Spec) *)

\* C2: a run of the Analyze handler in which the text extracted from every
\* uploaded file is empty or whitespace-only shows the 'could not extract
\* text' error, does not call analyze_document, and leaves the stored
\* analysis result as it was.
C2_BlankExtractionIsAnError ==
  [][(status' # "none" /\ \A k \in 1..Len(extracted') : IsBlank(extracted'[k].text))
       => /\ status' = "error"
          /\ calls' = <<>>
          /\ analysis_results' = analysis_results]_vars

\* C6: after the Analyze handler ran on a batch in which the extractor
\* failed on some file and succeeded on another, no exception has left the
\* handler, the extractor ran on every file, and analyze_document was called
\* once, on a text that holds the whole extracted text of every file the
\* extractor succeeded on.
C6_FailedFileDoesNotBlockBatch ==
  (/\ status # "none"
   /\ \E k \in 1..Len(uploaded_files) : ~uploaded_files[k].readable
   /\ \E k \in 1..Len(uploaded_files) : uploaded_files[k].readable)
  => /\ status = "success"
     /\ Len(extracted) = Len(uploaded_files)
     /\ \A k \in 1..Len(extracted) : extracted[k].name = uploaded_files[k].name
     /\ Len(calls) = 1
     /\ \A k \in 1..Len(uploaded_files) :
          uploaded_files[k].readable =>
            /\ extracted[k].text
                 = IF uploaded_files[k].type = PdfType
                   THEN PagesText(uploaded_files[k].pages)
                   ELSE PagesText(uploaded_files[k].paragraphs)
                        \o TablesText(uploaded_files[k].tables)
            /\ Contains(calls[1], extracted[k].text)
     /\ analysis_results # <<>>

\* the handler ran on a batch whose first file cannot be read and whose
\* second file has text: the result stored has findings from the second file
C6_Witness ==
  /\ status = "success"
  /\ Len(uploaded_files) = 2
  /\ ~uploaded_files[1].readable
  /\ uploaded_files[2].readable
  /\ extracted[1].text = <<>>
  /\ ~IsBlank(extracted[2].text)
  /\ Len(calls) = 1
  /\ analysis_results # <<>>
  /\ analysis_results[1].federal_items # <<>>

----------------------------------------------------------------------------
(* Claims about the context windows of find_matches (SpecFindMatches) *)

\* whether the literal (in lower case) occurs at position k of the
\* lower-cased text
OccursAt(low, lit, k) ==
  /\ k >= 1 /\ k + Len(lit) - 1 <= Len(low)
  /\ SubSeq(low, k, k + Len(lit) - 1) = lit

\* the position of the first occurrence
FirstOccurrence(low, lit) ==
  CHOOSE k \in 1..Len(low) :
    OccursAt(low, lit, k) /\ \A j \in 1..(k - 1) : ~OccursAt(low, lit, j)

\* the window C11 describes: 100 characters before the first occurrence, the
\* occurrence, 100 characters after it, cut at the ends of the text, trimmed
WindowAroundFirst(txt, n, p) ==
  strip(SubSeq(txt,
               IF p - 100 < 1 THEN 1 ELSE p - 100,
               IF p + n - 1 + 100 > Len(txt) THEN Len(txt) ELSE p + n - 1 + 100))

\* the position after the last newline before position p (1 when none)
LineStart(txt, p) ==
  IF \E j \in 1..(p - 1) : txt[j] = "\n"
  THEN 1 + CHOOSE j \in 1..(p - 1) :
             txt[j] = "\n" /\ \A i \in (j + 1)..(p - 1) : txt[i] # "\n"
  ELSE 1

\* the position before the first newline from position p on (Len when none)
LineEnd(txt, p) ==
  IF \E j \in p..Len(txt) : txt[j] = "\n"
  THEN (CHOOSE j \in p..Len(txt) :
          txt[j] = "\n" /\ \A i \in p..(j - 1) : txt[i] # "\n") - 1
  ELSE Len(txt)

\* the last occurrence that starts within 100 characters of position s, with
\* no newline between s and it
LastOccurrenceNear(txt, low, lit, s) ==
  CHOOSE q \in s..(s + 100) :
    /\ OccursAt(low, lit, q) /\ LineStart(txt, q) <= s
    /\ \A j \in (q + 1)..(s + 100) :
         ~(OccursAt(low, lit, j) /\ LineStart(txt, j) <= s)

\* the window from position s to 100 characters after the occurrence at q,
\* cut at the end of the line, trimmed
WindowFromTo(txt, n, s, q) ==
  strip(SubSeq(txt, s,
               IF LineEnd(txt, q + n) < q + n - 1 + 100
               THEN LineEnd(txt, q + n) ELSE q + n - 1 + 100))

\* the window that starts 100 characters before the first occurrence p, cut
\* at the start of its line
WindowOfLine(txt, low, lit, p) ==
  WindowFromTo(txt, Len(lit),
               IF p - 100 < LineStart(txt, p) THEN LineStart(txt, p) ELSE p - 100,
               LastOccurrenceNear(txt, low, lit,
                 IF p - 100 < LineStart(txt, p) THEN LineStart(txt, p) ELSE p - 100))

\* C11 (as stated): the context of each retained literal is the window
\* around the first occurrence of the literal in the text: the up to 100
\* characters before it, the occurrence, the up to 100 characters after it,
\* shortened only at the start and end of the text, trimmed.
C11_WindowAroundFirstOccurrence ==
  matches # <<>> =>
    \A e \in 1..Len(matches[1]) :
      \A k \in 1..Len(matches[1][e].contexts) :
        matches[1][e].contexts[k]
          = WindowAroundFirst(text,
              Len(LiteralsOf(RuleOf(matches[1][e].key))[k]),
              FirstOccurrence(lower(text),
                lower(LiteralsOf(RuleOf(matches[1][e].key))[k])))

\* C11 (amended): the context of each retained literal is a window that
\* starts up to 100 characters before the first occurrence of the literal
\* (in any letter case), but not before the start of that occurrence's line;
\* it runs to the last occurrence of the literal that starts within 100
\* characters of the window's start on the same line, and on to the up to
\* 100 characters after that occurrence, but not past the end of the line;
\* leading and trailing whitespace is trimmed.
C11_WindowOnOneLine ==
  matches # <<>> =>
    \A e \in 1..Len(matches[1]) :
      /\ Len(matches[1][e].contexts)
           = Len(LiteralsOf(RuleOf(matches[1][e].key)))
      /\ \A k \in 1..Len(matches[1][e].contexts) :
           matches[1][e].contexts[k]
             = WindowOfLine(text, lower(text),
                 lower(LiteralsOf(RuleOf(matches[1][e].key))[k]),
                 FirstOccurrence(lower(text),
                   lower(LiteralsOf(RuleOf(matches[1][e].key))[k])))

\* a literal at the start of the text that occurs again within 100
\* characters on the same line, with more than 100 characters after that:
\* the context is longer than the literal and the 100 characters after it
C11_Witness ==
  /\ matches # <<>>
  /\ text \in RepeatTexts
  /\ \E e \in 1..Len(matches[1]) :
       /\ Len(matches[1][e].contexts) = 1
       /\ Len(matches[1][e].contexts[1]) > 9 + ContextWindow

----------------------------------------------------------------------------
(* Claims about the statistics and the Summary sheet (SpecAnalyze) *)

\* the number of contexts of an ordered mapping, counted as (rule, context)
\* positions
ContextCount(m) ==
  Cardinality(UNION {{<<i, j>> : j \in 1..Len(m[i].contexts)} : i \in 1..Len(m)})

\* the value of the Summary row with this metric
SummaryValue(r, metric) ==
  (CHOOSE row \in Range(r[1].rows) : row[1] = metric)[2]

\* the number of data rows of the sheet of this name, 0 when it is left out
DataRows(r, name) ==
  IF HasSheet(r, name)
  THEN Len((CHOOSE sh \in Range(r) : sh.name = name).rows)
  ELSE 0

\* C12: risk_count is the number of contexts over all risk levels and rules,
\* instruction_count the number of contexts over all instruction rules; in
\* the report, the Summary rows 'Total Risks Identified', 'Total
\* Instructions Found' and 'Deadlines Found' equal the number of data rows
\* of the Risks, Instructions and Deadlines sheets (0 for a sheet left out).
C12_CountsMatchRows ==
  /\ results # <<>> =>
       /\ results[1].statistics.risk_count
            = ContextCount(results[1].risks.high)
              + ContextCount(results[1].risks.medium)
              + ContextCount(results[1].risks.low)
       /\ results[1].statistics.instruction_count
            = ContextCount(results[1].instructions)
  /\ report # <<>> =>
       /\ report[1][1].name = S_Summary
       /\ SummaryValue(report[1], S_TotalRisksIdentified)
            = DataRows(report[1], S_Risks)
       /\ SummaryValue(report[1], S_TotalInstructionsFound)
            = DataRows(report[1], S_Instructions)
       /\ SummaryValue(report[1], S_DeadlinesFound)
            = DataRows(report[1], S_Deadlines)

\* a report of a result with risks of two levels, a rule with two contexts,
\* instructions of two rules and a deadline
C12_Witness ==
  /\ report # <<>>
  /\ results[1].risks.high # <<>>
  /\ results[1].risks.medium # <<>>
  /\ \E i \in 1..Len(results[1].risks.medium) :
       Len(results[1].risks.medium[i].contexts) >= 2
  /\ results[1].statistics.risk_count >= 4
  /\ Len(results[1].instructions) >= 2
  /\ results[1].deadlines # <<>>
  /\ DataRows(report[1], S_Risks) >= 4

=============================================================================
